---- MODULE Spec2Model ----
(***************************************************************************)
(* Model of translate_replace (src/main.rs): the JSON path lookup          *)
(* read_json_path, the placeholder matcher TranslateFinder (is_match,      *)
(* replace_with_string) and the driver loop apply_translation.             *)
(*                                                                         *)
(* Text is a sequence of one-character strings.  A JSON value is a record  *)
(* [kind, val]; an Option is a record [some, v].                           *)
(***************************************************************************)
EXTENDS Integers, Sequences, FiniteSets, TLC

(***************************************************************************)
(* Bounds of the model.                                                    *)
(***************************************************************************)
MaxDepth == 2
MaxSegs == 2
MaxParts == 3
MaxFiles == 2
MaxDicts == 2

(***************************************************************************)
(* serde_json::Value                                                       *)
(***************************************************************************)
Null == [kind |-> "Null", val |-> 0]
Bool(b) == [kind |-> "Bool", val |-> b]
Number(n) == [kind |-> "Number", val |-> n]
String(s) == [kind |-> "String", val |-> s]
Array(a) == [kind |-> "Array", val |-> a]
Object(o) == [kind |-> "Object", val |-> o]

\* Option<T>; the payload of None is never read.
None == [some |-> FALSE, v |-> 0]
Some(x) == [some |-> TRUE, v |-> x]

\* Value::as_str
as_str(f) == IF f.kind = "String" THEN Some(f.val) ELSE None

\* impl Index for usize: an array position in range, else the static Null.
IndexUsizeOffByOne(value, i) ==
  IF value.kind = "Array" /\ i + 1 < Len(value.val) THEN value.val[i + 2] ELSE Null

IndexUsize(value, i) ==
  IF value.kind = "Array" /\ i < Len(value.val) THEN value.val[i + 1] ELSE Null

\* impl Index for str: a field of an object, else the static Null.
IndexStr(value, k) ==
  IF value.kind = "Object" /\ k \in DOMAIN value.val THEN value.val[k] ELSE Null

(***************************************************************************)
(* str::parse::<usize>: an optional leading "+", then one or more decimal  *)
(* digits.  The segments of the model are far shorter than the 20 digits   *)
(* at which a 64-bit usize overflows.                                      *)
(***************************************************************************)
Digits == <<"0", "1", "2", "3", "4", "5", "6", "7", "8", "9">>

IsDigit(c) == \E d \in 1..Len(Digits) : Digits[d] = c

DigitVal(c) == (CHOOSE d \in 1..Len(Digits) : Digits[d] = c) - 1

RECURSIVE DigitsVal(_, _)
DigitsVal(s, acc) ==
  IF s = <<>> THEN acc ELSE DigitsVal(Tail(s), acc * 10 + DigitVal(Head(s)))

ParseUsize(seg) ==
  LET body == IF seg # <<>> /\ Head(seg) = "+" THEN Tail(seg) ELSE seg
  IN IF body # <<>> /\ \A j \in 1..Len(body) : IsDigit(body[j])
     THEN Some(DigitsVal(body, 0))
     ELSE None

\* str::split("."): the segments between the dots; never empty.
RECURSIVE SplitFrom(_, _)
SplitFrom(s, cur) ==
  IF s = <<>> THEN <<cur>>
  ELSE IF Head(s) = "." THEN <<cur>> \o SplitFrom(Tail(s), <<>>)
  ELSE SplitFrom(Tail(s), Append(cur, Head(s)))

Split(s) == SplitFrom(s, <<>>)

\* One application of the closure folded by read_json_path; f0 is the
\* position (from 0) of the segment f1.
FoldStepFieldOnly(value, acc, f0, f1) ==
  IF f0 = 0 THEN Some(IndexStr(value, f1))
  ELSE IF ~acc.some THEN None
  ELSE Some(IndexStr(acc.v, f1))

FoldStepNoneOnMiss(value, acc, f0, f1) ==
  LET from == IF f0 = 0 THEN value ELSE acc.v
      hit == IF ParseUsize(f1).some
             THEN IndexUsize(from, ParseUsize(f1).v)
             ELSE IndexStr(from, f1)
  IN IF f0 # 0 /\ ~acc.some THEN None
     ELSE IF hit = Null THEN None
     ELSE Some(hit)

FoldStep(value, acc, f0, f1) ==
  IF f0 = 0
  THEN IF ParseUsize(f1).some
       THEN Some(IndexUsize(value, ParseUsize(f1).v))
       ELSE Some(IndexStr(value, f1))
  ELSE IF ~acc.some THEN None
  ELSE IF ParseUsize(f1).some
       THEN Some(IndexUsize(acc.v, ParseUsize(f1).v))
       ELSE Some(IndexStr(acc.v, f1))

RECURSIVE Fold(_, _, _, _)
Fold(value, segs, f0, acc) ==
  IF f0 >= Len(segs) THEN acc
  ELSE Fold(value, segs, f0 + 1, FoldStep(value, acc, f0, segs[f0 + 1]))

read_json_path(value, path) == Fold(value, Split(path), 0, None)

(***************************************************************************)
(* State.  map, path, sample: the arguments of the functions under check;  *)
(* lookup, matched, replaced: their results (called records which calls    *)
(* have returned).  spine and leaf describe how map was built.             *)
(*                                                                         *)
(* State of a run of apply_translation: translations and dry_run are its   *)
(* arguments, glob the entries that glob(search_path) yields (an Err, or a *)
(* path that the ignore regex matches or not), disk the content of the     *)
(* file of each entry and disk0 that content when the run started; pc,     *)
(* entry and applied are the position in the two loops, file_as_string the *)
(* content read, stdout the files named by the lines printed, writes the   *)
(* calls of fs::write that were made,                                      *)
(* trace the files read, dictionaries applied and lines printed, in order, *)
(* and prev the trace of the dry run made before.                          *)
(***************************************************************************)
VARIABLES map, path, spine, leaf, lookup, sample, matched, replaced, called,
          translations, dry_run, glob, disk, disk0, pc, entry, applied, file_as_string,
          stdout, writes, trace, prev

fnVars == <<map, path, spine, leaf, lookup, sample, matched, replaced, called>>

runVars == <<translations, dry_run, glob, disk, disk0, pc, entry, applied, file_as_string,
             stdout, writes, trace, prev>>

vars == <<fnVars, runVars>>

\* The values of the variables that a specification does not use.
NoCalls ==
  /\ map = Null
  /\ path = <<>>
  /\ spine = <<>>
  /\ leaf = Null
  /\ lookup = None
  /\ sample = <<>>
  /\ matched = FALSE
  /\ replaced = None
  /\ called = {}

NoRun ==
  /\ translations = <<>>
  /\ dry_run = FALSE
  /\ glob = <<>>
  /\ disk = <<>>
  /\ disk0 = <<>>
  /\ pc = "off"
  /\ entry = 0
  /\ applied = 0
  /\ file_as_string = <<>>
  /\ stdout = <<>>
  /\ writes = <<>>
  /\ trace = <<>>
  /\ prev = None

(***************************************************************************)
(* Input domains of the path lookup.  A dictionary is built along a spine  *)
(* of steps (an object field or an array position) that ends in leaf; the  *)
(* siblings on the way are filler.                                         *)
(***************************************************************************)
Field(k) == [isIdx |-> FALSE, key |-> k, idx |-> 0]
Pos(i) == [isIdx |-> TRUE, key |-> <<>>, idx |-> i]

Steps == {Field(<<"a">>), Field(<<"0">>), Field(<<"a", ".", "b">>), Pos(0), Pos(1)}

Leaves == {Null, Bool(TRUE), Number(1), String(<<"x">>), Object(<<>>)}

Filler == String(<<"f">>)

RECURSIVE SeqsUpTo(_, _)
SeqsUpTo(S, n) ==
  IF n = 0 THEN {<<>>}
  ELSE LET shorter == SeqsUpTo(S, n - 1)
       IN shorter \cup {Append(q, x) : q \in {r \in shorter : Len(r) = n - 1}, x \in S}

RECURSIVE Build(_, _)
Build(steps, lf) ==
  IF steps = <<>> THEN lf
  ELSE LET s == Head(steps)
           child == Build(Tail(steps), lf)
       IN IF s.isIdx
          THEN Array([j \in 1..(s.idx + 1) |-> IF j = s.idx + 1 THEN child ELSE Filler])
          ELSE Object([k \in {s.key, <<"z">>} |-> IF k = s.key THEN child ELSE Filler])

Segs == {<<"a">>, <<"0">>, <<"1">>, <<"+", "0">>, <<"z">>}

RECURSIVE Join(_)
Join(segs) ==
  IF Len(segs) = 0 THEN <<>>
  ELSE IF Len(segs) = 1 THEN segs[1]
  ELSE segs[1] \o <<".">> \o Join(Tail(segs))

Paths == {Join(q) : q \in SeqsUpTo(Segs, MaxSegs) \ {<<>>}}

\* The key path that names the spine: field names and decimal positions,
\* joined by dots.
StepText(s) == IF s.isIdx THEN <<Digits[s.idx + 1]>> ELSE s.key

SpinePath(steps) == Join([j \in 1..Len(steps) |-> StepText(steps[j])])

\* The payload, path and expected leaf of tests::can_read_value_by_json_path.
TestPayload ==
  Object([k \in {<<"s", "n", "a", "g", "H", "e", "a", "d", "e", "r">>, <<"a", "r", "r", "a", "y">>} |->
    IF k = <<"s", "n", "a", "g", "H", "e", "a", "d", "e", "r">> THEN String(<<"T", "e", "s", "t">>)
    ELSE Array(<<Object([n \in {<<"n", "a", "m", "e">>} |-> String(<<"E", "m", "b", "e", "d", "d", "e", "d", " ", "0">>)]),
                 Object([n \in {<<"n", "a", "m", "e">>} |-> String(<<"E", "m", "b", "e", "d", "d", "e", "d", " ", "1">>)])>>)])

TestSpine == <<Field(<<"a", "r", "r", "a", "y">>), Pos(0), Field(<<"n", "a", "m", "e">>)>>

TestLeaf == String(<<"E", "m", "b", "e", "d", "d", "e", "d", " ", "0">>)

TestPath == <<"a", "r", "r", "a", "y", ".", "0", ".", "n", "a", "m", "e">>

InitPath ==
  /\ \/ /\ spine \in SeqsUpTo(Steps, MaxDepth) \ {<<>>}
        /\ leaf \in Leaves
        /\ map = Build(spine, leaf)
        /\ path \in Paths \cup {SpinePath(spine)}
     \/ /\ spine = TestSpine
        /\ leaf = TestLeaf
        /\ map = TestPayload
        /\ path = TestPath
  /\ lookup = None
  /\ sample = <<>>
  /\ matched = FALSE
  /\ replaced = None
  /\ called = {}
  /\ NoRun

\* let u = read_json_path(&map, path)
CallReadJsonPath ==
  /\ "read_json_path" \notin called
  /\ lookup' = read_json_path(map, path)
  /\ called' = called \cup {"read_json_path"}
  /\ UNCHANGED <<map, path, spine, leaf, sample, matched, replaced, runVars>>

NextPath == CallReadJsonPath

SpecPath == InitPath /\ [][NextPath]_vars

(***************************************************************************)
(* TranslateFinder.  The regex of TranslateFinder::new is                  *)
(*   ['"](?P<key>[^|]+)['"] ?\| ?translate                                 *)
(* matched leftmost-first: a quote, the longest run of one or more         *)
(* characters other than the pipe that lets the rest match, a quote, at    *)
(* most one space, a pipe, at most one space, and the letters "translate". *)
(***************************************************************************)
TranslateFinder_new(m) == [regex |-> "['\"](?P<key>[^|]+)['\"] ?\\| ?translate", map |-> m]

IsQuote(c) == c \in {"'", "\""}

Translate == <<"t", "r", "a", "n", "s", "l", "a", "t", "e">>

LiteralAt(text, p, lit) ==
  /\ p + Len(lit) - 1 <= Len(text)
  /\ \A j \in 1..Len(lit) : text[p + j - 1] = lit[j]

\* \| ?translate at p: the position after the match, or 0.
PipeEnd(text, p) ==
  IF p <= Len(text) /\ text[p] = "|"
  THEN IF p + 1 <= Len(text) /\ text[p + 1] = " " /\ LiteralAt(text, p + 2, Translate)
       THEN p + 2 + Len(Translate)
       ELSE IF LiteralAt(text, p + 1, Translate) THEN p + 1 + Len(Translate) ELSE 0
  ELSE 0

\* " ?\| ?translate" at p: the position after the match, or 0.
TailEndNoSpace(text, p) == PipeEnd(text, p)

TailEnd(text, p) ==
  IF p <= Len(text) /\ text[p] = " " /\ PipeEnd(text, p + 1) > 0
  THEN PipeEnd(text, p + 1)
  ELSE PipeEnd(text, p)

\* The match that starts at s: its span [start, end) and the key group.
MatchAt(text, s) ==
  IF s > Len(text) \/ ~IsQuote(text[s]) THEN None
  ELSE LET lens == {n \in 1..(Len(text) - s - 1) :
                      /\ IsQuote(text[s + n + 1])
                      /\ TailEnd(text, s + n + 2) > 0
                      /\ \A j \in (s + 1)..(s + n) : text[j] # "|"}
       IN IF lens = {} THEN None
          ELSE LET n == CHOOSE x \in lens : \A y \in lens : y <= x
               IN Some([start |-> s, end |-> TailEnd(text, s + n + 2),
                        key |-> SubSeq(text, s + 1, s + n)])

\* The leftmost match that starts at pos or later.
RECURSIVE FindAt(_, _)
FindAt(text, pos) ==
  IF pos > Len(text) THEN None
  ELSE IF MatchAt(text, pos).some THEN MatchAt(text, pos)
  ELSE FindAt(text, pos + 1)

is_match(self, sample_) == FindAt(sample_, 1).some

\* The closure given to replace_all: the text that replaces the match caps,
\* and whether it sets did_replace.
ReplacerKeyText(self, text, caps) ==
  LET r == read_json_path(self.map, caps.key)
  IN IF r.some
     THEN [text |-> IF as_str(r.v).some THEN as_str(r.v).v ELSE caps.key,
           did |-> as_str(r.v).some]
     ELSE [text |-> <<>>, did |-> FALSE]

Replacer(self, text, caps) ==
  LET r == read_json_path(self.map, caps.key)
  IN IF r.some
     THEN [text |-> IF as_str(r.v).some THEN as_str(r.v).v
                    ELSE SubSeq(text, caps.start, caps.end - 1),
           did |-> as_str(r.v).some]
     ELSE [text |-> <<>>, did |-> FALSE]

\* Regex::replace_all: every non-overlapping match from pos on is replaced;
\* out is the text built so far and did the flag did_replace.
RECURSIVE ReplaceAll(_, _, _, _, _)
ReplaceAll(self, text, pos, out, did) ==
  LET f == FindAt(text, pos)
  IN IF ~f.some
     THEN [text |-> out \o SubSeq(text, pos, Len(text)), did |-> did]
     ELSE LET r == Replacer(self, text, f.v)
          IN ReplaceAll(self, text, f.v.end,
                        out \o SubSeq(text, pos, f.v.start - 1) \o r.text,
                        did \/ r.did)

replace_with_string_Always(self, sample_) ==
  Some(ReplaceAll(self, sample_, 1, <<>>, FALSE).text)

replace_with_string(self, sample_) ==
  LET r == ReplaceAll(self, sample_, 1, <<>>, FALSE)
  IN IF r.did THEN Some(r.text) ELSE None

(***************************************************************************)
(* Input domains of the finder: a text is up to MaxParts parts, each a     *)
(* placeholder in some spelling or a piece of other text.  The empty       *)
(* dictionary, in which no key resolves, is tried on the shorter texts.    *)
(***************************************************************************)
SpecMap ==
  Object([k \in {<<"g", "r", "e", "e", "t", "i", "n", "g">>, <<"e">>, <<"o", "b", "j">>, <<"a", "r", "r", "a", "y">>, <<"n">>} |->
    CASE k = <<"g", "r", "e", "e", "t", "i", "n", "g">> -> String(<<"h", "e", "l", "l", "o", ",", " ", "w", "o", "r", "l", "d">>)
      [] k = <<"e">> -> String(<<>>)
      [] k = <<"o", "b", "j">> -> Object([a \in {<<"a">>} |-> Number(1)])
      [] k = <<"a", "r", "r", "a", "y">> -> Array(<<Object([n \in {<<"n", "a", "m", "e">>} |-> String(<<"E", "m", "b", "e", "d", "d", "e", "d", " ", "0">>)])>>)
      [] OTHER -> Null])

FinderMaps == {SpecMap, Object(<<>>)}

Lead == <<" ", " ", "{", "{", " ">>
Placeholder == <<"'", "g", "r", "e", "e", "t", "i", "n", "g", "'", " ", "|", " ", "t", "r", "a", "n", "s", "l", "a", "t", "e">>
Tight == <<"{", "{", "'", "e", "'", "|", "t", "r", "a", "n", "s", "l", "a", "t", "e", "}", "}">>
Close == <<"}", "}">>
Nested == <<"\"", "a", "r", "r", "a", "y", ".", "0", ".", "n", "a", "m", "e", "'", "|", "t", "r", "a", "n", "s", "l", "a", "t", "e">>
Missing == <<"'", "m", "i", "s", "s", "i", "n", "g", ".", "k", "e", "y", "'", " ", "|", " ", "t", "r", "a", "n", "s", "l", "a", "t", "e">>
Obj == <<"'", "o", "b", "j", "'", " ", "|", " ", "t", "r", "a", "n", "s", "l", "a", "t", "e">>
TwoBefore == <<"'", "g", "r", "e", "e", "t", "i", "n", "g", "'", " ", " ", "|", " ", "t", "r", "a", "n", "s", "l", "a", "t", "e">>
TabAfter == <<"'", "g", "r", "e", "e", "t", "i", "n", "g", "'", " ", "|", "\t", "t", "r", "a", "n", "s", "l", "a", "t", "e">>

Parts ==
  {Placeholder, Tight, Nested, Missing, Obj, TwoBefore, TabAfter,
   Lead, Close, <<"'">>}

RECURSIVE Concat(_)
Concat(parts) == IF parts = <<>> THEN <<>> ELSE Head(parts) \o Concat(Tail(parts))

Texts(n) == {Concat(q) : q \in SeqsUpTo(Parts, n)}

InitFinder ==
  /\ \/ map = SpecMap /\ sample \in Texts(MaxParts)
     \/ map = Object(<<>>) /\ sample \in Texts(MaxParts - 1)
  /\ path = <<>>
  /\ spine = <<>>
  /\ leaf = Null
  /\ lookup = None
  /\ matched = FALSE
  /\ replaced = None
  /\ called = {}
  /\ NoRun

\* translate_finder.is_match(&sample)
CallIsMatch ==
  /\ "is_match" \notin called
  /\ matched' = is_match(TranslateFinder_new(map), sample)
  /\ called' = called \cup {"is_match"}
  /\ UNCHANGED <<map, path, spine, leaf, lookup, sample, replaced, runVars>>

\* translate_finder.replace_with_string(&sample)
CallReplaceWithString ==
  /\ "replace_with_string" \notin called
  /\ replaced' = replace_with_string(TranslateFinder_new(map), sample)
  /\ called' = called \cup {"replace_with_string"}
  /\ UNCHANGED <<map, path, spine, leaf, lookup, sample, matched, runVars>>

NextFinder == CallIsMatch \/ CallReplaceWithString

SpecFinder == InitFinder /\ [][NextFinder]_vars

(***************************************************************************)
(* apply_translation.  Reads and writes of files succeed.                  *)
(***************************************************************************)
AltMap ==
  Object([k \in {<<"m", "i", "s", "s", "i", "n", "g">>} |-> Object([j \in {<<"k", "e", "y">>} |-> String(<<"f", "o", "u", "n", "d">>)])])

RunMaps == {SpecMap, AltMap}

FileTexts == {Close, Missing, Placeholder \o Missing}

\* What glob yields for one path, and the content of the file there.
Entries ==
  {[ok |-> FALSE, ignored |-> FALSE, content |-> <<>>],
   [ok |-> TRUE, ignored |-> TRUE, content |-> Placeholder]}
  \cup {[ok |-> TRUE, ignored |-> FALSE, content |-> c] : c \in FileTexts}

Init ==
  /\ NoCalls
  /\ translations \in {[j \in 1..Len(q) |-> TranslateFinder_new(q[j])] :
                         q \in SeqsUpTo(RunMaps, MaxDicts)}
  /\ dry_run \in BOOLEAN
  /\ \E es \in SeqsUpTo(Entries, MaxFiles) :
       /\ glob = [j \in 1..Len(es) |-> [ok |-> es[j].ok, ignored |-> es[j].ignored]]
       /\ disk = [j \in 1..Len(es) |-> es[j].content]
  /\ disk0 = disk
  /\ pc = "glob"
  /\ entry = 0
  /\ applied = 0
  /\ file_as_string = <<>>
  /\ stdout = <<>>
  /\ writes = <<>>
  /\ trace = <<>>
  /\ prev = None

\* for entry in glob(search_path): an entry that is an Err is passed over.
SkipErr ==
  /\ pc = "glob"
  /\ entry < Len(glob)
  /\ ~glob[entry + 1].ok
  /\ entry' = entry + 1
  /\ UNCHANGED <<fnVars, translations, dry_run, glob, disk, disk0, pc, applied,
                 file_as_string, stdout, writes, trace, prev>>

\* An entry whose path the ignore regex matches is passed over.
SkipIgnored ==
  /\ pc = "glob"
  /\ entry < Len(glob)
  /\ glob[entry + 1].ok
  /\ glob[entry + 1].ignored
  /\ entry' = entry + 1
  /\ UNCHANGED <<fnVars, translations, dry_run, glob, disk, disk0, pc, applied,
                 file_as_string, stdout, writes, trace, prev>>

\* let file_as_string = fs::read_to_string(&entry).unwrap(), and the loop
\* over the finders starts.
ReadEntry ==
  /\ pc = "glob"
  /\ entry < Len(glob)
  /\ glob[entry + 1].ok
  /\ ~glob[entry + 1].ignored
  /\ entry' = entry + 1
  /\ file_as_string' = disk[entry + 1]
  /\ applied' = 0
  /\ pc' = "finders"
  /\ trace' = Append(trace, <<"read", entry + 1>>)
  /\ UNCHANGED <<fnVars, translations, dry_run, glob, disk, disk0, stdout, writes, prev>>

\* The next finder matches and replaces: the file is written unless dry_run.
ReplaceWritesAlways ==
  LET translate_finder == translations[applied + 1]
      replacement == replace_with_string(translate_finder, file_as_string)
  IN /\ pc = "finders"
     /\ applied < Len(translations)
     /\ is_match(translate_finder, file_as_string)
     /\ replacement.some
     /\ disk' = [disk EXCEPT ![entry] = replacement.v]
     /\ writes' = Append(writes, [file |-> entry, finder |-> applied + 1, content |-> replacement.v])
     /\ applied' = applied + 1
     /\ trace' = Append(trace, <<"apply", entry, applied + 1>>)
     /\ UNCHANGED <<fnVars, translations, dry_run, glob, disk0, pc, entry,
                    file_as_string, stdout, prev>>

ReplaceCumulative ==
  LET translate_finder == translations[applied + 1]
      replacement == replace_with_string(translate_finder, disk[entry])
  IN /\ pc = "finders"
     /\ applied < Len(translations)
     /\ is_match(translate_finder, file_as_string)
     /\ replacement.some
     /\ IF dry_run
        THEN UNCHANGED <<disk, writes>>
        ELSE /\ disk' = [disk EXCEPT ![entry] = replacement.v]
             /\ writes' = Append(writes, [file |-> entry, finder |-> applied + 1,
                                          content |-> replacement.v])
     /\ applied' = applied + 1
     /\ trace' = Append(trace, <<"apply", entry, applied + 1>>)
     /\ UNCHANGED <<fnVars, translations, dry_run, glob, disk0, pc, entry,
                    file_as_string, stdout, prev>>

Replace ==
  LET translate_finder == translations[applied + 1]
      replacement == replace_with_string(translate_finder, file_as_string)
  IN /\ pc = "finders"
     /\ applied < Len(translations)
     /\ is_match(translate_finder, file_as_string)
     /\ replacement.some
     /\ IF dry_run
        THEN UNCHANGED <<disk, writes>>
        ELSE /\ disk' = [disk EXCEPT ![entry] = replacement.v]
             /\ writes' = Append(writes, [file |-> entry, finder |-> applied + 1,
                                          content |-> replacement.v])
     /\ applied' = applied + 1
     /\ trace' = Append(trace, <<"apply", entry, applied + 1>>)
     /\ UNCHANGED <<fnVars, translations, dry_run, glob, disk0, pc, entry,
                    file_as_string, stdout, prev>>

\* The next finder matches and replaces nothing:
\* println!("No translations found for file {:?}", &entry).
ReportAborts ==
  LET translate_finder == translations[applied + 1]
  IN /\ pc = "finders"
     /\ applied < Len(translations)
     /\ is_match(translate_finder, file_as_string)
     /\ ~replace_with_string(translate_finder, file_as_string).some
     /\ pc' = "done"
     /\ trace' = Append(trace, <<"apply", entry, applied + 1>>)
     /\ UNCHANGED <<fnVars, translations, dry_run, glob, disk, disk0, entry, applied,
                    file_as_string, stdout, writes, prev>>

Report ==
  LET translate_finder == translations[applied + 1]
  IN /\ pc = "finders"
     /\ applied < Len(translations)
     /\ is_match(translate_finder, file_as_string)
     /\ ~replace_with_string(translate_finder, file_as_string).some
     /\ stdout' = Append(stdout, entry)
     /\ applied' = applied + 1
     /\ trace' = Append(Append(trace, <<"apply", entry, applied + 1>>), <<"print", entry>>)
     /\ UNCHANGED <<fnVars, translations, dry_run, glob, disk, disk0, pc, entry,
                    file_as_string, writes, prev>>

\* The next finder does not match: break.
Break ==
  /\ pc = "finders"
  /\ applied < Len(translations)
  /\ ~is_match(translations[applied + 1], file_as_string)
  /\ pc' = "glob"
  /\ trace' = Append(trace, <<"apply", entry, applied + 1>>)
  /\ UNCHANGED <<fnVars, translations, dry_run, glob, disk, disk0, entry, applied,
                 file_as_string, stdout, writes, prev>>

\* The loop over the finders ends.
EndFinders ==
  /\ pc = "finders"
  /\ applied = Len(translations)
  /\ pc' = "glob"
  /\ UNCHANGED <<fnVars, translations, dry_run, glob, disk, disk0, entry, applied,
                 file_as_string, stdout, writes, trace, prev>>

\* The loop over the entries ends and apply_translation returns.
Return ==
  /\ pc = "glob"
  /\ entry = Len(glob)
  /\ pc' = "done"
  /\ UNCHANGED <<fnVars, translations, dry_run, glob, disk, disk0, entry, applied,
                 file_as_string, stdout, writes, trace, prev>>

\* main is run again on the same arguments without --dry-run, after a run
\* with it.
RunAgain ==
  /\ pc = "done"
  /\ dry_run
  /\ prev = None
  /\ prev' = Some(trace)
  /\ dry_run' = FALSE
  /\ disk0' = disk
  /\ pc' = "glob"
  /\ entry' = 0
  /\ applied' = 0
  /\ file_as_string' = <<>>
  /\ stdout' = <<>>
  /\ writes' = <<>>
  /\ trace' = <<>>
  /\ UNCHANGED <<fnVars, translations, glob, disk>>

Next ==
  \/ SkipErr
  \/ SkipIgnored
  \/ ReadEntry
  \/ Replace
  \/ Report
  \/ Break
  \/ EndFinders
  \/ Return
  \/ RunAgain

Spec == Init /\ [][Next]_vars

(***************************************************************************)
(* Properties of the path lookup, checked under SpecPath.                  *)
(***************************************************************************)
PathCalled == "read_json_path" \in called

\* The value a sequence of typed steps leads to in a tree, when every field
\* and every position on the way is present.
RECURSIVE Walk(_, _)
Walk(v, steps) ==
  IF steps = <<>> THEN Some(v)
  ELSE LET s == Head(steps)
       IN IF s.isIdx
          THEN IF v.kind = "Array" /\ s.idx + 1 \in DOMAIN v.val
               THEN Walk(v.val[s.idx + 1], Tail(steps))
               ELSE None
          ELSE IF v.kind = "Object" /\ s.key \in DOMAIN v.val
               THEN Walk(v.val[s.key], Tail(steps))
               ELSE None

AddressesStringLeaf ==
  /\ path = SpinePath(spine)
  /\ Walk(map, spine).some
  /\ Walk(map, spine).v.kind = "String"

\* A field name that the lookup cannot tell from a position or from two
\* segments.
Numeric(seg) ==
  \/ seg # <<>> /\ \A j \in 1..Len(seg) : seg[j] \in {"0", "1", "2", "3", "4", "5", "6", "7", "8", "9"}
  \/ /\ Len(seg) > 1
     /\ seg[1] = "+"
     /\ \A j \in 2..Len(seg) : seg[j] \in {"0", "1", "2", "3", "4", "5", "6", "7", "8", "9"}

PlainFields ==
  \A j \in 1..Len(spine) :
    ~spine[j].isIdx =>
      /\ ~Numeric(spine[j].key)
      /\ \A c \in 1..Len(spine[j].key) : spine[j].key[c] # "."

\* C2 as stated: for every dictionary and every key path K that addresses a
\* string-valued leaf (K the dot-joined field names and array positions
\* leading to it), read_json_path returns exactly that string.
C2_AnyFieldName ==
  (PathCalled /\ AddressesStringLeaf) => lookup = Some(Walk(map, spine).v)

\* C2 as amended: the same, for key paths on which no object field name
\* parses as a non-negative integer or contains a dot.
C2_PlainFieldNames ==
  (PathCalled /\ AddressesStringLeaf /\ PlainFields) => lookup = Some(Walk(map, spine).v)

C2_Witness ==
  /\ PathCalled /\ AddressesStringLeaf /\ PlainFields
  /\ Len(spine) = 2
  /\ ~spine[1].isIdx /\ spine[2].isIdx /\ spine[2].idx = 1
  /\ lookup = Some(String(<<"x">>))

\* The value one segment selects in a running value: a segment that is a
\* non-negative integer selects an array position, any other an object field.
Selects(v, seg) ==
  IF Numeric(seg)
  THEN LET n == DigitsVal(IF seg[1] = "+" THEN Tail(seg) ELSE seg, 0)
       IN IF v.kind = "Array" /\ n + 1 \in DOMAIN v.val THEN v.val[n + 1] ELSE Null
  ELSE IF v.kind = "Object" /\ seg \in DOMAIN v.val THEN v.val[seg] ELSE Null

\* The segments of the path of the state, and the path made of its first n.
PathSegs == Split(path)

Prefix(n) == Join(SubSeq(PathSegs, 1, n))

\* C3: the segments are processed left to right; the first selects in the
\* root and each later one in the running value, by the integer-or-field
\* rule; so "array.0.name" resolves to "Embedded 0" in the test payload.
C3_IntegerOrField ==
  PathCalled =>
    /\ Join(PathSegs) = path
    /\ \A n \in 1..Len(PathSegs) :
         read_json_path(map, Prefix(n)) =
           Some(Selects(IF n = 1 THEN map ELSE read_json_path(map, Prefix(n - 1)).v,
                        PathSegs[n]))
    /\ lookup = read_json_path(map, Prefix(Len(PathSegs)))
    /\ (map = TestPayload /\ path = TestPath) => lookup = Some(TestLeaf)

C3_Witness ==
  /\ PathCalled
  /\ map = TestPayload
  /\ path = TestPath
  /\ lookup = Some(String(<<"E", "m", "b", "e", "d", "d", "e", "d", " ", "0">>))

\* Segment n of the path misses: the running value has no such field, no
\* such position, or is neither an object nor an array.
Misses(n) ==
  LET v == IF n = 1 THEN map ELSE read_json_path(map, Prefix(n - 1)).v
      seg == PathSegs[n]
  IN IF Numeric(seg)
     THEN ~(v.kind = "Array" /\ DigitsVal(IF seg[1] = "+" THEN Tail(seg) ELSE seg, 0) < Len(v.val))
     ELSE ~(v.kind = "Object" /\ seg \in DOMAIN v.val)

\* C4: the lookup always returns a value; a step that misses yields null,
\* and from there on every later segment yields null, so the result is null.
C4_Total ==
  PathCalled =>
    /\ lookup.some
    /\ \A n \in 1..Len(PathSegs) :
         Misses(n) => \A m \in n..Len(PathSegs) : read_json_path(map, Prefix(m)) = Some(Null)
    /\ (\E n \in 1..Len(PathSegs) : Misses(n)) => lookup = Some(Null)

C4_Witness ==
  /\ PathCalled
  /\ Len(PathSegs) >= 2
  /\ ~Misses(1)
  /\ Misses(2)
  /\ read_json_path(map, Prefix(1)).v.kind = "String"
  /\ lookup = Some(Null)

(***************************************************************************)
(* Properties of the finder, checked under SpecFinder.                     *)
(***************************************************************************)
MatchCalled == "is_match" \in called

ReplaceCalled == "replace_with_string" \in called

\* The first pipe after position s, or 0.
FirstPipe(text, s) ==
  LET pipes == {p \in (s + 1)..Len(text) : text[p] = "|"}
  IN IF pipes = {} THEN 0 ELSE CHOOSE p \in pipes : \A r \in pipes : p <= r

\* The placeholder that starts at s, with pad the characters that may stand
\* around the pipe and many whether more than one of them may: a quote, a
\* non-empty key without a pipe, a quote, the padding, the pipe, the padding
\* and the word translate.
SpanWith(text, s, pad, many) ==
  LET p == FirstPipe(text, s)
      before == {k \in (s + 1)..(p - 1) : \A j \in (k + 1)..(p - 1) : text[j] \in pad}
      after == {w \in (p + 1)..Len(text) : \A j \in (p + 1)..(w - 1) : text[j] \in pad}
      ks == {k \in before : IsQuote(text[k]) /\ k >= s + 2 /\ (many \/ p - k <= 2)}
      ws == {w \in after : LiteralAt(text, w, Translate) /\ (many \/ w - p <= 2)}
  IN IF s \in 1..Len(text) /\ IsQuote(text[s]) /\ p # 0 /\ ks # {} /\ ws # {}
     THEN LET k == CHOOSE x \in ks : \A y \in ks : x <= y
              w == CHOOSE x \in ws : TRUE
          IN Some([start |-> s, end |-> w + Len(Translate), key |-> SubSeq(text, s + 1, k - 1)])
     ELSE None

\* As the pattern has it: at most one space on each side of the pipe.
Span(text, s) == SpanWith(text, s, {" "}, FALSE)

\* As "optional whitespace" reads: any run of spaces and tabs.
LooseSpan(text, s) == SpanWith(text, s, {" ", "\t"}, TRUE)

\* The placeholder occurrences of a text from pos on, scanned left to right
\* without overlap.
RECURSIVE Occurrences(_, _)
Occurrences(text, pos) ==
  LET starts == {s \in pos..Len(text) : Span(text, s).some}
  IN IF starts = {} THEN <<>>
     ELSE LET o == Span(text, CHOOSE s \in starts : \A r \in starts : s <= r).v
          IN <<o>> \o Occurrences(text, o.end)

ResolvesToString(key) == read_json_path(map, key).v.kind = "String"

Spaces(n) == [j \in 1..n |-> " "]

\* C1: for a dictionary that maps "greeting" to a string and a text of
\* leading spaces followed by {{ 'greeting' | translate}}, the result of
\* replace_with_string is Some of the same spaces followed by the string,
\* and nothing else.
C1_EndToEnd ==
  \A n \in 0..Len(sample) :
    ( /\ ReplaceCalled
      /\ sample = Spaces(n) \o <<"{", "{", " ">> \o Placeholder \o Close
      /\ IndexStr(map, <<"g", "r", "e", "e", "t", "i", "n", "g">>).kind = "String" )
    => replaced = Some(Spaces(n) \o IndexStr(map, <<"g", "r", "e", "e", "t", "i", "n", "g">>).val)

\* C5: replace_with_string returns Some exactly when some placeholder
\* occurrence of the text has a key that resolves to a JSON string; a text
\* with no occurrence gives None and is no match.
C5_SomeIffResolved ==
  LET occs == Occurrences(sample, 1)
  IN /\ ReplaceCalled =>
          (replaced.some <=> \E i \in 1..Len(occs) : ResolvesToString(occs[i].key))
     /\ (ReplaceCalled /\ MatchCalled /\ occs = <<>>) => (~replaced.some /\ ~matched)

C5_Witness ==
  /\ ReplaceCalled
  /\ MatchCalled
  /\ \/ sample = Obj /\ map = SpecMap
     \/ sample = Missing /\ map = Object(<<>>)
  /\ matched
  /\ replaced = None

\* The text in which every occurrence whose key resolves to a string is
\* replaced by the string, and everything else is as it was written.
RECURSIVE Substituted(_, _, _)
Substituted(text, occs, pos) ==
  IF occs = <<>> THEN SubSeq(text, pos, Len(text))
  ELSE LET o == Head(occs)
       IN SubSeq(text, pos, o.start - 1)
          \o (IF ResolvesToString(o.key)
              THEN read_json_path(map, o.key).v.val
              ELSE SubSeq(text, o.start, o.end - 1))
          \o Substituted(text, Tail(occs), o.end)

\* C6: in the text returned, the occurrences whose key resolves to a string
\* are replaced by it, the others and the text between the occurrences are
\* unchanged and in the same order.
C6_OnlyResolvedReplaced ==
  (ReplaceCalled /\ replaced.some) =>
    replaced.v = Substituted(sample, Occurrences(sample, 1), 1)

C6_Witness ==
  /\ ReplaceCalled
  /\ map = SpecMap
  /\ sample = Missing \o Lead \o Placeholder
  /\ replaced = Some(Missing \o Lead \o <<"h", "e", "l", "l", "o", ",", " ", "w", "o", "r", "l", "d">>)

\* C7 as stated: is_match is true exactly when the text contains a quote, a
\* non-empty key without a pipe, a quote, optional whitespace, a pipe,
\* optional whitespace and the word translate.
C7_AnyWhitespace ==
  MatchCalled => (matched <=> \E s \in 1..Len(sample) : LooseSpan(sample, s).some)

\* C7 as amended: the same with at most one space character (no tab, no
\* second space) on each side of the pipe; the result is true for
\* {{'k'|translate}} and for {{ 'k' | translate}} after leading whitespace,
\* and is the same for every dictionary.
C7_AtMostOneSpace ==
  MatchCalled =>
    /\ matched <=> \E s \in 1..Len(sample) : Span(sample, s).some
    /\ sample \in {Tight, Lead \o Placeholder \o Close} => matched
    /\ \A m \in FinderMaps : is_match(TranslateFinder_new(m), sample) = matched

C7_Witness ==
  /\ MatchCalled
  /\ sample = Lead \o Placeholder \o Close
  /\ matched

(***************************************************************************)
(* Properties of apply_translation, checked under Spec.                    *)
(***************************************************************************)
\* The entry f is a file that the run reads, and its loop over the finders
\* has ended.
Processed(f) == glob[f].ok /\ ~glob[f].ignored

Finished(f) == f < entry \/ (f = entry /\ pc # "finders")

\* What each finder makes of the content that file f had when the run
\* started, and the finders that replace something in it.
Subs(f) == [j \in 1..Len(translations) |-> replace_with_string(translations[j], disk0[f])]

SomeIn(subs) == {j \in DOMAIN subs : subs[j].some}

WritesOf(f) == SelectSeq(writes, LAMBDA w : w.file = f)

Last(S) == CHOOSE x \in S : \A y \in S : y <= x

\* C8: without dry_run, a file is read once; every substitution is that of
\* the content read, not of an earlier finder's output; the file is written
\* once for each finder whose substitution is Some, in order; and when its
\* loop has ended the file holds the substitution of the last such finder,
\* or its original content when there is none.
C8_LastSomeWins ==
  ~dry_run =>
    \A f \in 1..Len(glob) :
      (Processed(f) /\ Finished(f)) =>
        LET subs == Subs(f)
            some == SomeIn(subs)
            ws == WritesOf(f)
        IN /\ Cardinality({i \in 1..Len(trace) : trace[i] = <<"read", f>>}) = 1
           /\ Len(ws) = Cardinality(some)
           /\ \A i \in 1..Len(ws) :
                /\ ws[i].finder \in some
                /\ ws[i].content = subs[ws[i].finder].v
                /\ i > 1 => ws[i - 1].finder < ws[i].finder
           /\ disk[f] = IF some = {} THEN disk0[f] ELSE subs[Last(some)].v

C8_Witness ==
  /\ ~dry_run
  /\ pc = "done"
  /\ \E f \in 1..Len(glob) :
       /\ Processed(f)
       /\ Len(translations) = 2
       /\ Cardinality(SomeIn(Subs(f))) = 2
       /\ Subs(f)[1] # Subs(f)[2]
       /\ disk[f] = Subs(f)[2].v
       /\ disk[f] # replace_with_string(translations[2], Subs(f)[1].v).v

\* C9: with dry_run no file is written, so every file holds what it held
\* before the run; and the files read, finders applied and lines printed are
\* those of the run on the same arguments without dry_run.
C9_DryRunOnlySkipsWrites ==
  /\ dry_run => (disk = disk0 /\ writes = <<>>)
  /\ (pc = "done" /\ prev.some) => trace = prev.v

C9_Witness ==
  /\ pc = "done"
  /\ prev.some
  /\ ~dry_run
  /\ writes # <<>>
  /\ disk # disk0
  /\ stdout # <<>>
  /\ trace = prev.v

\* C10: a finder that matches a file and replaces nothing prints the line
\* naming the file and does not write it, and a file in which no finder
\* replaces anything is left as it was; a file that does not match is
\* neither named nor written; and the run goes on to the files that remain.
C10_ReportedAndLeft ==
  /\ \A f \in 1..Len(glob) :
       (Processed(f) /\ Finished(f)) =>
         LET subs == Subs(f)
             some == SomeIn(subs)
             matches == {j \in DOMAIN subs : is_match(translations[j], disk0[f])}
             none == matches \ some
         IN /\ \A j \in none :
                 /\ \E i \in 1..(Len(trace) - 1) :
                      trace[i] = <<"apply", f, j>> /\ trace[i + 1] = <<"print", f>>
                 /\ \A i \in 1..Len(writes) : ~(writes[i].file = f /\ writes[i].finder = j)
            /\ Cardinality({i \in 1..Len(stdout) : stdout[i] = f}) = Cardinality(none)
            /\ some = {} => disk[f] = disk0[f]
            /\ matches = {} =>
                 /\ \A i \in 1..Len(stdout) : stdout[i] # f
                 /\ WritesOf(f) = <<>>
                 /\ disk[f] = disk0[f]
  /\ pc = "done" =>
       \A f \in 1..Len(glob) : Processed(f) => \E i \in 1..Len(trace) : trace[i] = <<"read", f>>

C10_Witness ==
  /\ pc = "done"
  /\ ~dry_run
  /\ Len(glob) = 2
  /\ Processed(1) /\ Processed(2)
  /\ translations # <<>>
  /\ is_match(translations[1], disk0[1])
  /\ SomeIn(Subs(1)) = {}
  /\ stdout # <<>> /\ stdout[1] = 1
  /\ disk[1] = disk0[1]
  /\ \E i \in 1..Len(trace) : trace[i] = <<"read", 2>>

====
